---- MODULE Spec2Model ----
(***************************************************************************)
(* Inventory / sales / purchases ledger (Express + Mongoose backends).     *)
(*                                                                         *)
(* The repository holds three server files that work on the same MongoDB   *)
(* collections (productos, ventas, compras):                               *)
(*   src/unnamed/part_001  inventory backend: POST /api/productos,         *)
(*                         POST /api/ventas, PATCH /api/productos/:id/stock *)
(*   src/unnamed/part_000  accounting backend: POST /api/compras,          *)
(*                         POST /api/ventas (schemas with min: 1)          *)
(*   src/backend/server.js accounting backend: POST /api/compras           *)
(* Every handler is modelled with one action per storage operation it      *)
(* awaits (findById, save of the product, save of the new record): between *)
(* two awaits other requests may run, inside one they may not.             *)
(*                                                                         *)
(* Money: the code computes iva = total * 0.21 in floating point. The      *)
(* model keeps subtotals in whole units and iva / total of a persisted     *)
(* record in hundredths (iva = 21 * subtotal, total = 100 * subtotal +     *)
(* iva), i.e. the exact rational value.                                    *)
(*                                                                         *)
(* Not modelled: DELETE /api/productos/:id, the photo upload, the list and *)
(* search routes, /api/pagos and /api/cobros. A product document is its    *)
(* codigo, stock and precioVenta (nombre is carried exactly like codigo);   *)
(* every line item of a request carries a numeric precioUnitario.          *)
(***************************************************************************)
EXTENDS Integers, Sequences, FiniteSets, TLC

\* ------------------------------------------------------------ bounds
\* Line items in the request bodies of one behaviour, all requests together.
MaxItems == 2
\* Largest quantity in a line item.
MaxCantidad == 2
\* Largest stock a product starts with.
MaxStock == 2
\* The requests of one behaviour; any two may overlap.
Llamadas == {1, 2}

\* ------------------------------------------------------------ routes
VENTAS_INV == "ventas_inv"      \* part_001 POST /api/ventas
VENTAS_CONT == "ventas_cont"    \* part_000 POST /api/ventas
COMPRAS_CONT == "compras_cont"  \* part_000 POST /api/compras
COMPRAS_SRV == "compras_srv"    \* server.js POST /api/compras
AJUSTE == "ajuste"              \* part_001 PATCH /api/productos/:id/stock
PRODUCTOS == "productos"        \* part_001 POST /api/productos

RutasVenta == {VENTAS_INV, VENTAS_CONT}
RutasCompra == {COMPRAS_CONT, COMPRAS_SRV}

EsVenta(ruta) == ruta \in RutasVenta

\* ------------------------------------------------------------ inputs
\* _id values: 1 and 2 are stored from the start, 3 is the _id the first
\* created product gets (until then it is an id no document has).
Ids == {1, 2, 3}
\* Absent field of a request body (JavaScript undefined).
Undefined == "undefined"

\* Line items of a request body: {productoId, cantidad, precioUnitario}.
ItemsDe(cants, precios) ==
  [productoId : Ids, cantidad : cants, precioUnitario : precios]

RECURSIVE ListasDe(_, _)
ListasDe(S, n) ==
  IF n = 0 THEN {<<>>}
  ELSE LET cortas == ListasDe(S, n - 1)
       IN cortas \cup {Append(l, x) : l \in {c \in cortas : Len(c) = n - 1}, x \in S}

\* Request bodies of POST /api/ventas and POST /api/compras, by length: any
\* quantity from 0 up, or only the quantities the schemas of part_000 accept.
Cantidades == 0..MaxCantidad
CantidadesValidas == 1..MaxCantidad
PreciosCliente == {30}
PorLargo(S) == [n \in 0..MaxItems |-> {l \in ListasDe(S, MaxItems) : Len(l) = n}]
Pedidos == PorLargo(ItemsDe(Cantidades, PreciosCliente))
PedidosValidos == PorLargo(ItemsDe(CantidadesValidas, PreciosCliente))

\* Signed deltas of PATCH /api/productos/:id/stock.
Deltas == {-1000000, -1, 1}

\* Request bodies of POST /api/productos; stock is <<>> when the body has none.
Cuerpos == [codigo : {"A1", "C3", Undefined}, stock : {<<>>, <<1>>}, precioVenta : {70}]

\* ------------------------------------------------------------ state
VARIABLES
  productos,   \* collection Producto: _id -> [codigo, stock, precioVenta]
  ventas,      \* collection Venta, in insertion order
  compras,     \* collection Compra, in insertion order
  llamadas     \* the requests: slot -> handler position and locals

vars == <<productos, ventas, compras, llamadas>>

NoProducto == [codigo |-> Undefined, stock |-> 0, precioVenta |-> 0]
NoCuerpo == [codigo |-> Undefined, stock |-> <<>>, precioVenta |-> 0]

\* A request that has not arrived yet. req: the line items of a sale or
\* purchase, n: Len(req); id, cantidad: the parameters of a stock adjustment;
\* cuerpo: the body of a product creation.
Libre ==
  [pc |-> "idle", ruta |-> Undefined, req |-> <<>>, n |-> 0, id |-> 0, cantidad |-> 0,
   cuerpo |-> NoCuerpo, i |-> 0, producto |-> NoProducto, total |-> 0,
   lineas |-> <<>>, status |-> 0]

\* A request that has been answered with status st. Kept: the response, how
\* far the loop got (i, and in id and cantidad the item it stopped at), the
\* lines it had pushed, the parameters of an adjustment or a creation.
Terminada(l, st) ==
  [Libre EXCEPT !.pc = "done", !.ruta = l.ruta, !.n = l.n, !.i = l.i,
                !.id = l.id, !.cantidad = l.cantidad, !.cuerpo = l.cuerpo,
                !.lineas = l.lineas, !.status = st]

InitCon(stocks1, stocks2) ==
  /\ productos \in
       { (1 :> [codigo |-> "A1", stock |-> s1, precioVenta |-> 100]) @@
         (2 :> [codigo |-> "B2", stock |-> s2, precioVenta |-> 50])
         : s1 \in stocks1, s2 \in stocks2 }
  /\ ventas = <<>>
  /\ compras = <<>>
  /\ llamadas = [c \in Llamadas |-> Libre]

Init == InitCon({MaxStock}, {1})

\* ------------------------------------------------------------ helpers
\* Producto.findById(id): the document, or null.
Existe(id) == id \in DOMAIN productos

\* Mutants of the stock check: only an empty stock is refused; the comparison
\* is off by one.
StockInsuficienteSoloVacio(stock, cantidad) == stock <= 0
StockInsuficientePorUno(stock, cantidad) == stock + 1 < cantidad

\* if (producto.stock < item.cantidad) return res.status(400)
StockInsuficiente(stock, cantidad) == stock < cantidad

\* Unit price of a line: the product's sale price in part_001's sale, the
\* caller's price everywhere else.
PrecioUnitario(ruta, item, producto) ==
  IF ruta = VENTAS_INV THEN producto.precioVenta ELSE item.precioUnitario

\* Mutant: the purchase handler keeps the subtraction of the sale handler.
NuevoStockSiempreResta(ruta, stock, cantidad) == stock - cantidad

\* producto.stock -= item.cantidad (sale) / producto.stock += item.cantidad
NuevoStock(ruta, stock, cantidad) ==
  IF EsVenta(ruta) THEN stock - cantidad ELSE stock + cantidad

\* const iva = total * 0.21, in hundredths
Iva(total) == total * 21

\* Mutant: the tax is left out of the total.
TotalSinIva(total) == total * 100

\* const totalConIva = total + iva, in hundredths
TotalConIva(total) == total * 100 + Iva(total)

\* Mongoose validation of the new record: part_000's schemas require
\* cantidad >= 1 in every line; the other two files declare plain Numbers.
LineaValida(ruta, linea) ==
  ruta \in {VENTAS_CONT, COMPRAS_CONT} => linea.cantidad >= 1

Valida(ruta, lineas) ==
  \A k \in 1..Len(lineas) : LineaValida(ruta, lineas[k])

\* Mutant: the clamp is missing.
AjustadoSinTope(stock, cantidad) == stock + cantidad

\* producto.stock += cantidad; if (producto.stock < 0) producto.stock = 0
Ajustado(stock, cantidad) ==
  IF stock + cantidad < 0 THEN 0 ELSE stock + cantidad

\* Mutant: codigo has no unique index.
CodigoSinIndice(codigo) == FALSE

\* The unique index on codigo: a stored document has this codigo.
CodigoExiste(codigo) == \E id \in DOMAIN productos : productos[id].codigo = codigo

\* Line items in the bodies of the requests that have arrived.
RECURSIVE ItemsPedidos(_)
ItemsPedidos(S) ==
  IF S = {} THEN 0
  ELSE LET c == CHOOSE x \in S : TRUE IN llamadas[c].n + ItemsPedidos(S \ {c})

\* ------------------------------------------------------------ sale / purchase
\* The request arrives: const { productos } = req.body; let total = 0;
\* const productosVendidos = []; the loop starts (or is skipped).
Llega(c, rutas, pedidos) ==
  /\ llamadas[c].pc = "idle"
  /\ \A b \in Llamadas : b < c => llamadas[b].pc # "idle"
  /\ \E n \in 0..(MaxItems - ItemsPedidos(Llamadas)) :
       \E ruta \in rutas, req \in pedidos[n] :
         llamadas' = [llamadas EXCEPT ![c] =
           [Libre EXCEPT !.pc = IF n = 0 THEN "insert" ELSE "find",
                         !.ruta = ruta, !.req = req, !.n = n, !.i = 1]]
  /\ UNCHANGED <<productos, ventas, compras>>

\* Mutant of Find: a missing product or an insufficient stock skips the item
\* (continue) instead of ending the request (return).
FindSinAbortar(c) ==
  LET l == llamadas[c]
      item == l.req[l.i]
  IN /\ l.pc = "find"
     /\ llamadas' = [llamadas EXCEPT ![c] =
          IF \/ ~Existe(item.productoId)
             \/ /\ EsVenta(l.ruta)
                /\ StockInsuficiente(productos[item.productoId].stock, item.cantidad)
          THEN [l EXCEPT !.pc = IF l.i = Len(l.req) THEN "insert" ELSE "find",
                         !.i = l.i + 1]
          ELSE [l EXCEPT !.pc = "save", !.producto = productos[item.productoId]]]
     /\ UNCHANGED <<productos, ventas, compras>>

\* await Producto.findById(item.productoId), then the two early returns.
Find(c) ==
  LET l == llamadas[c]
      item == l.req[l.i]
      aqui == [l EXCEPT !.id = item.productoId, !.cantidad = item.cantidad]
  IN /\ l.pc = "find"
     /\ llamadas' = [llamadas EXCEPT ![c] =
          IF ~Existe(item.productoId) THEN Terminada(aqui, 404)
          ELSE IF EsVenta(l.ruta)
                  /\ StockInsuficiente(productos[item.productoId].stock, item.cantidad)
               THEN Terminada(aqui, 400)
          ELSE [l EXCEPT !.pc = "save", !.producto = productos[item.productoId]]]
     /\ UNCHANGED <<productos, ventas, compras>>

\* Mutant of Save: the stock is changed in the database by the quantity
\* ($inc) instead of being overwritten with the value computed from the read.
SaveAtomico(c) ==
  LET l == llamadas[c]
      item == l.req[l.i]
      precio == PrecioUnitario(l.ruta, item, l.producto)
      subtotal == precio * item.cantidad
      linea == [productoId |-> item.productoId, codigo |-> l.producto.codigo,
                cantidad |-> item.cantidad, precioUnitario |-> precio,
                subtotal |-> subtotal]
  IN /\ l.pc = "save"
     /\ productos' = [productos EXCEPT ![item.productoId].stock =
                       NuevoStock(l.ruta, @, item.cantidad)]
     /\ llamadas' = [llamadas EXCEPT ![c] =
          [l EXCEPT !.pc = IF l.i = Len(l.req) THEN "insert" ELSE "find",
                    !.i = l.i + 1,
                    !.producto = NoProducto,
                    !.total = l.total + subtotal,
                    !.lineas = Append(l.lineas, linea)]]
     /\ UNCHANGED <<ventas, compras>>

\* subtotal, total += subtotal, the stock update, await producto.save(), push.
\* save() writes the modified paths: $set {stock} on this _id, whatever the
\* stored value is by now; nothing when cantidad is 0 (stock is set to the
\* value it has, which does not mark it modified).
Save(c) ==
  LET l == llamadas[c]
      item == l.req[l.i]
      precio == PrecioUnitario(l.ruta, item, l.producto)
      subtotal == precio * item.cantidad
      stock == NuevoStock(l.ruta, l.producto.stock, item.cantidad)
      linea == [productoId |-> item.productoId, codigo |-> l.producto.codigo,
                cantidad |-> item.cantidad, precioUnitario |-> precio,
                subtotal |-> subtotal]
  IN /\ l.pc = "save"
     /\ productos' =
          IF stock = l.producto.stock THEN productos
          ELSE [productos EXCEPT ![item.productoId].stock = stock]
     /\ llamadas' = [llamadas EXCEPT ![c] =
          [l EXCEPT !.pc = IF l.i = Len(l.req) THEN "insert" ELSE "find",
                    !.i = l.i + 1,
                    !.producto = NoProducto,
                    !.total = l.total + subtotal,
                    !.lineas = Append(l.lineas, linea)]]
     /\ UNCHANGED <<ventas, compras>>

\* iva, totalConIva, new Venta / new Compra, await save(), res.json.
\* A validation error is caught: res.status(500).
Insert(c) ==
  LET l == llamadas[c]
      doc == [productos |-> l.lineas, total |-> TotalConIva(l.total), iva |-> Iva(l.total)]
  IN /\ l.pc = "insert"
     /\ IF ~Valida(l.ruta, l.lineas)
        THEN /\ llamadas' = [llamadas EXCEPT ![c] = Terminada(l, 500)]
             /\ UNCHANGED <<ventas, compras>>
        ELSE /\ llamadas' = [llamadas EXCEPT ![c] = Terminada(l, 200)]
             /\ IF EsVenta(l.ruta)
                THEN ventas' = Append(ventas, doc) /\ compras' = compras
                ELSE compras' = Append(compras, doc) /\ ventas' = ventas
     /\ UNCHANGED productos

\* ------------------------------------------------------------ stock adjustment
\* PATCH /api/productos/:id/stock arrives with { cantidad }.
LlegaAjuste(c) ==
  /\ llamadas[c].pc = "idle"
  /\ \A b \in Llamadas : b < c => llamadas[b].pc # "idle"
  /\ \E id \in Ids, cantidad \in Deltas :
       llamadas' = [llamadas EXCEPT ![c] =
         [Libre EXCEPT !.pc = "find_ajuste", !.ruta = AJUSTE, !.id = id,
                       !.cantidad = cantidad]]
  /\ UNCHANGED <<productos, ventas, compras>>

\* await Producto.findById(req.params.id); on null, producto.stock throws a
\* TypeError inside the try: res.status(500).
FindAjuste(c) ==
  LET l == llamadas[c]
  IN /\ l.pc = "find_ajuste"
     /\ llamadas' = [llamadas EXCEPT ![c] =
          IF ~Existe(l.id) THEN Terminada(l, 500)
          ELSE [l EXCEPT !.pc = "save_ajuste", !.producto = productos[l.id]]]
     /\ UNCHANGED <<productos, ventas, compras>>

\* producto.stock += cantidad, the clamp, await producto.save(), res.json.
\* The deltas are not 0, so stock is a modified path and save() writes it.
SaveAjuste(c) ==
  LET l == llamadas[c]
      stock == Ajustado(l.producto.stock, l.cantidad)
  IN /\ l.pc = "save_ajuste"
     /\ productos' = [productos EXCEPT ![l.id].stock = stock]
     /\ llamadas' = [llamadas EXCEPT ![c] = Terminada(l, 200)]
     /\ UNCHANGED <<ventas, compras>>

\* ------------------------------------------------------------ product creation
\* POST /api/productos arrives with its body.
LlegaProducto(c) ==
  /\ llamadas[c].pc = "idle"
  /\ \A b \in Llamadas : b < c => llamadas[b].pc # "idle"
  /\ \E cuerpo \in Cuerpos :
       llamadas' = [llamadas EXCEPT ![c] =
         [Libre EXCEPT !.pc = "save_nuevo", !.ruta = PRODUCTOS, !.cuerpo = cuerpo]]
  /\ UNCHANGED <<productos, ventas, compras>>

\* await nuevo.save(): validation (codigo is required: 500), then the insert
\* under the unique index on codigo (error 11000: 400); stock defaults to 0.
SaveProducto(c) ==
  LET l == llamadas[c]
      id == Cardinality(DOMAIN productos) + 1
      nuevo == [codigo |-> l.cuerpo.codigo,
                stock |-> IF l.cuerpo.stock = <<>> THEN 0 ELSE l.cuerpo.stock[1],
                precioVenta |-> l.cuerpo.precioVenta]
  IN /\ l.pc = "save_nuevo"
     /\ IF l.cuerpo.codigo = Undefined
        THEN /\ llamadas' = [llamadas EXCEPT ![c] = Terminada(l, 500)]
             /\ productos' = productos
        ELSE IF CodigoExiste(l.cuerpo.codigo)
        THEN /\ llamadas' = [llamadas EXCEPT ![c] = Terminada(l, 400)]
             /\ productos' = productos
        ELSE /\ llamadas' = [llamadas EXCEPT ![c] = [Terminada(l, 200) EXCEPT !.id = id]]
             /\ productos' = (id :> nuevo) @@ productos
     /\ UNCHANGED <<ventas, compras>>

\* ------------------------------------------------------------ specifications
\* The three servers on one database, any request bodies.
Next ==
  \E c \in Llamadas :
    \/ Llega(c, RutasVenta \cup RutasCompra, Pedidos)
    \/ Find(c)
    \/ Save(c)
    \/ Insert(c)
    \/ LlegaAjuste(c)
    \/ FindAjuste(c)
    \/ SaveAjuste(c)
    \/ LlegaProducto(c)
    \/ SaveProducto(c)

Spec == Init /\ [][Next]_vars

\* Sales only, every quantity at least 1, any initial stock.
InitVentas == InitCon(0..MaxStock, 0..MaxStock)

NextVentas ==
  \E c \in Llamadas :
    \/ Llega(c, RutasVenta, PedidosValidos)
    \/ Find(c)
    \/ Save(c)
    \/ Insert(c)

SpecVentas == InitVentas /\ [][NextVentas]_vars

\* Purchases only, every quantity at least 1, any initial stock.
NextCompras ==
  \E c \in Llamadas :
    \/ Llega(c, RutasCompra, PedidosValidos)
    \/ Find(c)
    \/ Save(c)
    \/ Insert(c)

SpecCompras == InitVentas /\ [][NextCompras]_vars

\* Sequential execution: a sale or purchase arrives only when no other
\* request is between its arrival and its answer.
LlegaSola(c, rutas, pedidos) ==
  /\ \A b \in Llamadas : llamadas[b].pc \in {"idle", "done"}
  /\ Llega(c, rutas, pedidos)

NextSecuencial ==
  \E c \in Llamadas :
    \/ LlegaSola(c, RutasVenta \cup RutasCompra, Pedidos)
    \/ Find(c)
    \/ Save(c)
    \/ Insert(c)

SpecSecuencial == Init /\ [][NextSecuencial]_vars

\* ------------------------------------------------------------ properties
RECURSIVE Suma(_, _)
\* Sum of f over 1..n.
Suma(f, n) == IF n = 0 THEN 0 ELSE f[n] + Suma(f, n - 1)

\* The request of slot c takes a step.
Paso(c) == llamadas'[c] # llamadas[c]

\* The item the loop of slot c is at.
ItemActual(c) == llamadas[c].req[llamadas[c].i]

\* C1. Sales never take a stock below zero: with sales only, every quantity
\* at least 1 and every initial stock at least 0, the stock of every stored
\* product is at least 0 in every reachable state, however the steps of
\* the requests interleave and however often a request lists a product.
C1_StockNoNegativo ==
  \A id \in DOMAIN productos : productos[id].stock >= 0

\* A sale that lists product 1 twice has been recorded and has emptied its stock.
C1_Testigo ==
  \E c \in Llamadas :
    /\ llamadas[c].pc = "done" /\ llamadas[c].status = 200
    /\ Len(llamadas[c].lineas) = 2
    /\ llamadas[c].lineas[1].productoId = 1
    /\ llamadas[c].lineas[2].productoId = 1
    /\ productos[1].stock = 0

\* C2. A sale whose item asks for more than the stock findById returns is
\* answered 400 in that step, and the step changes no product and no
\* record; when the request has that single item, it has pushed no line,
\* so the request as a whole changed nothing.
C2_StockInsuficiente ==
  [][\A c \in Llamadas :
       (/\ llamadas[c].pc = "find"
        /\ EsVenta(llamadas[c].ruta)
        /\ Paso(c)
        /\ Existe(ItemActual(c).productoId)
        /\ productos[ItemActual(c).productoId].stock < ItemActual(c).cantidad)
       => /\ llamadas'[c].pc = "done"
          /\ llamadas'[c].status = 400
          /\ productos' = productos
          /\ ventas' = ventas
          /\ llamadas[c].n = 1 => llamadas'[c].lineas = <<>>]_vars

\* The only request so far, a sale of 2 units of product 2 (stock 1), was
\* answered 400: the stock is still 1 and no sale is stored.
C2_Testigo ==
  /\ llamadas[1].pc = "done" /\ llamadas[2].pc = "idle"
  /\ EsVenta(llamadas[1].ruta) /\ llamadas[1].status = 400
  /\ llamadas[1].n = 1 /\ llamadas[1].id = 2 /\ llamadas[1].cantidad = 2
  /\ productos[2].stock = 1
  /\ ventas = <<>>

\* Sum of the subtotals of the lines of a stored sale or purchase.
SumaSubtotales(doc) ==
  Suma([k \in 1..Len(doc.productos) |-> doc.productos[k].subtotal], Len(doc.productos))

Registros == {ventas[k] : k \in 1..Len(ventas)} \cup {compras[k] : k \in 1..Len(compras)}

\* C3. In every stored sale and purchase each line has subtotal = cantidad x
\* precioUnitario, iva is 21% of the sum of the line subtotals and total is
\* that sum plus iva (iva and total in hundredths).
C3_Totales ==
  \A doc \in Registros :
    /\ \A k \in 1..Len(doc.productos) :
         doc.productos[k].subtotal = doc.productos[k].cantidad * doc.productos[k].precioUnitario
    /\ doc.iva = 21 * SumaSubtotales(doc)
    /\ doc.total = 100 * SumaSubtotales(doc) + doc.iva

\* A sale of 2 units of product 1 (sale price 100, stock 2) is stored with
\* subtotal 200, iva 42.00 and total 242.00, and the stock is 0.
C3_Testigo ==
  /\ Len(ventas) = 1
  /\ Len(ventas[1].productos) = 1
  /\ ventas[1].productos[1].productoId = 1
  /\ ventas[1].productos[1].cantidad = 2
  /\ ventas[1].productos[1].subtotal = 200
  /\ ventas[1].iva = 4200
  /\ ventas[1].total = 24200
  /\ productos[1].stock = 0

\* C4. When the loop of a sale or purchase finds the product of item k
\* missing, or (in a sale) its stock insufficient, that step ends the
\* request with 404 / 400: it stores no record and changes no product (the
\* stock changes of items 1..k-1, one pushed line each, are not undone), and
\* an answered request takes no further step (no later item is processed,
\* no record is stored afterwards).
C4_AbortoSinRollback ==
  [][\A c \in Llamadas :
       /\ (/\ llamadas[c].pc = "find"
           /\ Paso(c)
           /\ \/ ~Existe(ItemActual(c).productoId)
              \/ /\ EsVenta(llamadas[c].ruta)
                 /\ productos[ItemActual(c).productoId].stock < ItemActual(c).cantidad)
          => /\ llamadas'[c].pc = "done"
             /\ llamadas'[c].status \in {400, 404}
             /\ llamadas'[c].i = llamadas[c].i
             /\ llamadas'[c].lineas = llamadas[c].lineas
             /\ Len(llamadas[c].lineas) = llamadas[c].i - 1
             /\ productos' = productos
             /\ ventas' = ventas
             /\ compras' = compras
       /\ llamadas[c].pc = "done" => ~Paso(c)]_vars

\* The only request so far, a sale of 1 unit of product 1 and then of a
\* product that does not exist, was answered 404 at item 2: no sale is
\* stored and product 1 has lost the unit.
C4_Testigo ==
  /\ llamadas[1].pc = "done" /\ llamadas[2].pc = "idle"
  /\ EsVenta(llamadas[1].ruta) /\ llamadas[1].status = 404
  /\ llamadas[1].n = 2 /\ llamadas[1].i = 2
  /\ Len(llamadas[1].lineas) = 1
  /\ llamadas[1].lineas[1].productoId = 1
  /\ llamadas[1].lineas[1].cantidad = 1
  /\ productos[1].stock = MaxStock - 1
  /\ ventas = <<>> /\ compras = <<>>


\* C5. (as claimed) With purchases only, every quantity at least 1, no step
\* lowers the stock of a product, however the requests interleave.
C5_StockNoBaja ==
  [][\A id \in DOMAIN productos : productos'[id].stock >= productos[id].stock]_vars

\* C6. The save of a stock adjustment stores max(0, stock + cantidad), stock
\* being the stock findById returned to the request: never a negative
\* stock, and 0 whenever stock + cantidad is below 0; no other product
\* changes.
C6_AjusteAcotado ==
  [][\A c \in Llamadas :
       (llamadas[c].pc = "save_ajuste" /\ Paso(c))
       => LET id == llamadas[c].id
              suma == llamadas[c].producto.stock + llamadas[c].cantidad
          IN /\ productos'[id].stock = IF suma < 0 THEN 0 ELSE suma
             /\ productos'[id].stock >= 0
             /\ \A o \in DOMAIN productos : o # id => productos'[o] = productos[o]
             /\ llamadas'[c].status = 200]_vars

\* Two adjustments of product 1 by -1000000 have both been answered 200 and
\* the stock is 0.
C6_Testigo ==
  /\ \A c \in Llamadas :
       /\ llamadas[c].pc = "done" /\ llamadas[c].ruta = AJUSTE
       /\ llamadas[c].status = 200
       /\ llamadas[c].id = 1 /\ llamadas[c].cantidad = -1000000
  /\ productos[1].stock = 0

\* C7. (as claimed) Every line of every stored sale carries the sale price
\* of its product as unit price, and the subtotal computed from it.
C7_PrecioDelProducto ==
  \A k \in 1..Len(ventas) : \A j \in 1..Len(ventas[k].productos) :
    LET linea == ventas[k].productos[j]
    IN /\ linea.precioUnitario = productos[linea.productoId].precioVenta
       /\ linea.subtotal = productos[linea.productoId].precioVenta * linea.cantidad

\* C8. (as claimed) Every line of every stored sale and purchase has a
\* quantity of at least 1.
C8_CantidadMinima ==
  \A doc \in Registros : \A k \in 1..Len(doc.productos) : doc.productos[k].cantidad >= 1

\* C9. No two stored products share a codigo, and the save of a new product
\* whose codigo a stored product has is answered 400 and leaves the
\* collection as it was (the same products with the same fields).
C9_CodigoUnico ==
  /\ [](\A a \in DOMAIN productos, b \in DOMAIN productos :
          a # b => productos[a].codigo # productos[b].codigo)
  /\ [][\A c \in Llamadas :
          (/\ llamadas[c].pc = "save_nuevo"
           /\ Paso(c)
           /\ \E id \in DOMAIN productos : productos[id].codigo = llamadas[c].cuerpo.codigo)
          => /\ llamadas'[c].pc = "done"
             /\ llamadas'[c].status = 400
             /\ productos' = productos]_vars

\* Two creations with codigo C3: one was answered 200 and is stored as
\* product 3, the other was answered 400.
C9_Testigo ==
  /\ \A c \in Llamadas :
       /\ llamadas[c].pc = "done" /\ llamadas[c].ruta = PRODUCTOS
       /\ llamadas[c].cuerpo.codigo = "C3"
  /\ \E c \in Llamadas : llamadas[c].status = 200
  /\ \E c \in Llamadas : llamadas[c].status = 400
  /\ DOMAIN productos = {1, 2, 3}
  /\ productos[3].codigo = "C3"

\* C10. The stock check and the stock write of a sale are separate storage
\* operations on the stock findById returned to the request: a sale that is
\* past its check read a stock of at least cantidad, and its save stores
\* that stock - cantidad, whatever the stored stock is by then. So two sales
\* that read the same stock both pass the check and both write.
C10_EscrituraCiega ==
  /\ [](\A c \in Llamadas :
          (llamadas[c].pc = "save" /\ EsVenta(llamadas[c].ruta))
          => llamadas[c].producto.stock >= ItemActual(c).cantidad)
  /\ [][\A c \in Llamadas :
          (/\ llamadas[c].pc = "save"
           /\ EsVenta(llamadas[c].ruta)
           /\ Paso(c))
          => productos'[ItemActual(c).productoId].stock =
               llamadas[c].producto.stock - ItemActual(c).cantidad]_vars

\* Units of product id in the lines of the stored sales.
Vendido(id) ==
  Suma([k \in 1..Len(ventas) |->
          Suma([j \in 1..Len(ventas[k].productos) |->
                  IF ventas[k].productos[j].productoId = id
                  THEN ventas[k].productos[j].cantidad ELSE 0],
               Len(ventas[k].productos))],
       Len(ventas))

\* Two sales of product 1 were both answered 200 and their stored records
\* hold more units of it than any stock it started with.
C10_Testigo ==
  /\ \A c \in Llamadas :
       /\ llamadas[c].pc = "done" /\ llamadas[c].status = 200
       /\ EsVenta(llamadas[c].ruta)
  /\ Len(ventas) = 2
  /\ Vendido(1) > MaxStock


\* The stock the products of Init start with.
StockInicial(id) == IF id = 1 THEN MaxStock ELSE 1

\* Units of product id in a sequence of lines.
Unidades(lineas, id) ==
  Suma([j \in 1..Len(lineas) |->
          IF lineas[j].productoId = id THEN lineas[j].cantidad ELSE 0],
       Len(lineas))

\* Units of product id in the lines of the stored purchases.
Comprado(id) ==
  Suma([k \in 1..Len(compras) |-> Unidades(compras[k].productos, id)], Len(compras))

\* Signed units of product id in the lines pushed by the requests that have
\* stored no record (in progress, or answered 400, 404 or 500).
SinRegistro(id) ==
  Suma([c \in 1..Cardinality(Llamadas) |->
          IF llamadas[c].status = 200 THEN 0
          ELSE IF EsVenta(llamadas[c].ruta) THEN 0 - Unidades(llamadas[c].lineas, id)
          ELSE Unidades(llamadas[c].lineas, id)],
       Cardinality(Llamadas))

\* C11. In a sequential execution the stock of every product is its initial
\* stock, plus the units of it in the lines of the stored purchases, minus
\* the units of it in the lines of the stored sales (a product listed in
\* several lines counts once per line), plus / minus the lines pushed by
\* requests that stored no record. This holds in every state, so each answered
\* sale or purchase has changed each stock by exactly the signed units of
\* the record it stored, and by nothing for a product it does not list.
C11_StockSegunRegistros ==
  \A id \in DOMAIN productos :
    productos[id].stock =
      StockInicial(id) + Comprado(id) - Vendido(id) + SinRegistro(id)

\* The only request so far, a purchase that lists product 1 twice (2 units
\* and 1 unit), is stored: product 1 has 3 units more, product 2 has its
\* initial stock.
C11_Testigo ==
  /\ llamadas[1].pc = "done" /\ llamadas[1].status = 200 /\ llamadas[2].pc = "idle"
  /\ Len(compras) = 1 /\ ventas = <<>>
  /\ Len(compras[1].productos) = 2
  /\ compras[1].productos[1].productoId = 1 /\ compras[1].productos[1].cantidad = 2
  /\ compras[1].productos[2].productoId = 1 /\ compras[1].productos[2].cantidad = 1
  /\ productos[1].stock = MaxStock + 3
  /\ productos[2].stock = 1

====
